---- MODULE Spec2Model ----
(***************************************************************************)
(* Model of Enumeration.py: the backtracking enumeration of the legal      *)
(* layouts of the Ginkgo puzzle (board geometry, legality oracle,          *)
(* placePiece recursion, walkBoards driver and the oracle's test harness). *)
(***************************************************************************)
EXTENDS Integers, Sequences, FiniteSets, TLC

VARIABLES pc, spiral, pieceDirection, validBoards, stack, total, probe, verdict

vars == <<pc, spiral, pieceDirection, validBoards, stack, total, probe, verdict>>

(* ---------------- bounds of the model ---------------- *)

\* longest prefix of the source's placement order that a modelled run walks
SpiralLen == 8

\* number of pieces a test board may hold besides the scenario's own pieces
MaxOther == 1

\* the geometry functions are applied to the coordinates of -Reach..Reach
Reach == 4

\* longest placement order of which every rearrangement is run
PermLen == 5

(* ---------------- directions and the board array ---------------- *)

NOWHERE == -1
NORTH == 0
EAST == 1
WEST == 2
SOUTH == 3

directions == <<NORTH, EAST, WEST, SOUTH>>

Concrete == {NORTH, EAST, WEST, SOUTH}

Slots == 0..48

EmptyBoard == [i \in Slots |-> NOWHERE]

\* indexOfCoord with a row width of 6
indexOfCoord_six(x, y) == (x + 3) * 6 + (y + 3)

indexOfCoord(x, y) == (x + 3) * 7 + (y + 3)

\* isOnBoard with a strict comparison in the last branch
isOnBoard_strict(x, y) ==
    IF x < 0
    THEN IF y < 0 THEN (0 - x) - y <= 3 ELSE y - x <= 3
    ELSE IF y < 0 THEN x - y <= 3 ELSE x + y < 3

isOnBoard(x, y) ==
    IF x < 0
    THEN IF y < 0 THEN (0 - x) - y <= 3 ELSE y - x <= 3
    ELSE IF y < 0 THEN x - y <= 3 ELSE x + y <= 3

Range == -3..3

OnBoardCoords == {c \in Range \X Range : isOnBoard(c[1], c[2])}

\* the spiral with (1,0) entered a second time in the place of (0,-1)
Spiral25_dup ==
    << <<0, 0>>,
       <<1, 0>>, <<0, 1>>, <<-1, 0>>, <<1, 0>>,
       <<1, -1>>, <<2, 0>>, <<1, 1>>, <<0, 2>>,
       <<-1, 1>>, <<-2, 0>>, <<-1, -1>>, <<0, -2>>,
       <<1, -2>>, <<2, -1>>, <<3, 0>>, <<2, 1>>, <<1, 2>>, <<0, 3>>,
       <<-1, 2>>, <<-2, 1>>, <<-3, 0>>, <<-2, -1>>, <<-1, -2>>, <<0, -3>> >>

\* the source's spiral[] list, in order
Spiral25 ==
    << <<0, 0>>,
       <<1, 0>>, <<0, 1>>, <<-1, 0>>, <<0, -1>>,
       <<1, -1>>, <<2, 0>>, <<1, 1>>, <<0, 2>>,
       <<-1, 1>>, <<-2, 0>>, <<-1, -1>>, <<0, -2>>,
       <<1, -2>>, <<2, -1>>, <<3, 0>>, <<2, 1>>, <<1, 2>>, <<0, 3>>,
       <<-1, 2>>, <<-2, 1>>, <<-3, 0>>, <<-2, -1>>, <<-1, -2>>, <<0, -3>> >>

(* ---------------- the legality oracle ---------------- *)

\* direction read from a neighbour: NOWHERE unless the neighbour is on the board
neighbourDirection(b, x, y) ==
    IF isOnBoard(x, y) THEN b[indexOfCoord(x, y)] ELSE NOWHERE

\* nwOverlap with the neighbour's test copied from the Southwest check
nwOverlap_copied(my, other) == (my = SOUTH \/ my = EAST) /\ (other = SOUTH \/ other = WEST)

nwOverlap(my, other) == (my = SOUTH \/ my = EAST) /\ (other = NORTH \/ other = WEST)

\* swOverlap without the test of the piece's own direction
swOverlap_otherOnly(my, other) == other = SOUTH \/ other = WEST

swOverlap(my, other) == (my = NORTH \/ my = EAST) /\ (other = SOUTH \/ other = WEST)

seOverlap(my, other) == (my = NORTH \/ my = WEST) /\ (other = SOUTH \/ other = EAST)

\* the Northeast check left out
neOverlap_never(my, other) == FALSE

neOverlap(my, other) == (my = SOUTH \/ my = WEST) /\ (other = NORTH \/ other = EAST)

\* one loop test: the far coordinate must be on the board, then the three
\* directions must match the signature
loopMatch(b, farX, farY, dirA, wantA, wantFar, dirB, wantB) ==
    /\ isOnBoard(farX, farY)
    /\ dirA = wantA
    /\ b[indexOfCoord(farX, farY)] = wantFar
    /\ dirB = wantB

\* northLoop with a wrong direction in the clockwise signature
northLoop_typo(b, x, y, nw, sw, se, ne) ==
    \/ loopMatch(b, x - 1, y - 1, nw, WEST, SOUTH, sw, EAST)
    \/ loopMatch(b, x + 1, y + 1, ne, EAST, SOUTH, se, EAST)

northLoop(b, x, y, nw, sw, se, ne) ==
    \/ loopMatch(b, x - 1, y - 1, nw, WEST, SOUTH, sw, EAST)
    \/ loopMatch(b, x + 1, y + 1, ne, EAST, SOUTH, se, WEST)

\* eastLoop without the clockwise test
eastLoop_ccwOnly(b, x, y, nw, sw, se, ne) ==
    loopMatch(b, x - 1, y + 1, ne, NORTH, WEST, nw, SOUTH)

eastLoop(b, x, y, nw, sw, se, ne) ==
    \/ loopMatch(b, x - 1, y + 1, ne, NORTH, WEST, nw, SOUTH)
    \/ loopMatch(b, x + 1, y - 1, se, SOUTH, WEST, sw, NORTH)

\* southLoop with the far corners of its two tests exchanged
southLoop_swapped(b, x, y, nw, sw, se, ne) ==
    \/ loopMatch(b, x - 1, y - 1, se, EAST, NORTH, ne, WEST)
    \/ loopMatch(b, x + 1, y + 1, sw, WEST, NORTH, nw, EAST)

southLoop(b, x, y, nw, sw, se, ne) ==
    \/ loopMatch(b, x + 1, y + 1, se, EAST, NORTH, ne, WEST)
    \/ loopMatch(b, x - 1, y - 1, sw, WEST, NORTH, nw, EAST)

westLoop(b, x, y, nw, sw, se, ne) ==
    \/ loopMatch(b, x + 1, y - 1, sw, SOUTH, EAST, se, NORTH)
    \/ loopMatch(b, x - 1, y + 1, nw, NORTH, EAST, ne, SOUTH)

isPieceDirectionLegal(b, myX, myY) ==
    LET myDirection == b[indexOfCoord(myX, myY)]
        nwDirection == neighbourDirection(b, myX - 1, myY)
        swDirection == neighbourDirection(b, myX, myY - 1)
        seDirection == neighbourDirection(b, myX + 1, myY)
        neDirection == neighbourDirection(b, myX, myY + 1)
    IN  IF nwOverlap(myDirection, nwDirection) THEN FALSE
        ELSE IF swOverlap(myDirection, swDirection) THEN FALSE
        ELSE IF seOverlap(myDirection, seDirection) THEN FALSE
        ELSE IF neOverlap(myDirection, neDirection) THEN FALSE
        ELSE IF myDirection = NORTH
             THEN ~northLoop(b, myX, myY, nwDirection, swDirection, seDirection, neDirection)
        ELSE IF myDirection = EAST
             THEN ~eastLoop(b, myX, myY, nwDirection, swDirection, seDirection, neDirection)
        ELSE IF myDirection = SOUTH
             THEN ~southLoop(b, myX, myY, nwDirection, swDirection, seDirection, neDirection)
        ELSE IF myDirection = WEST
             THEN ~westLoop(b, myX, myY, nwDirection, swDirection, seDirection, neDirection)
        ELSE TRUE

(* ---------------- placement orders of the modelled runs ---------------- *)

\* the entries of the source's spiral that lie in S, in the spiral's order
Restrict(S) == SelectSeq(Spiral25, LAMBDA c : c \in S)

Diamond(a) == {a, <<a[1], a[2] + 1>>, <<a[1] + 1, a[2] + 1>>, <<a[1] + 1, a[2]>>}

DiamondAnchors == {a \in OnBoardCoords : Diamond(a) \subseteq OnBoardCoords}

PlacementOrders ==
    {SubSeq(Spiral25, 1, k) : k \in 1..SpiralLen}
        \cup {Restrict({<<0, 0>>} \cup Diamond(a)) : a \in DiamondAnchors}

(* ---------------- placePiece and walkBoards ---------------- *)

\* an activation of placePiece: its argument, the position of its for loop
\* (di = index into directions, at = "loop" before the assignment of the
\* body, "placed" after it), and the board as it was when the call was
\* entered (history, read by no action)
Frame(spiralIndex, b) ==
    [spiralIndex |-> spiralIndex, di |-> 1, at |-> "loop", entry |-> b]

top == stack[Len(stack)]

pop == SubSeq(stack, 1, Len(stack) - 1)

coordOf(f) == spiral[f.spiralIndex + 1]

\* pieceIndexOf with the two coordinates exchanged
pieceIndexOf_swapped(f) == indexOfCoord(coordOf(f)[2], coordOf(f)[1])

pieceIndexOf(f) == indexOfCoord(coordOf(f)[1], coordOf(f)[2])

recordValidBoard(v) == v + 1

RECURSIVE Completions(_, _, _)
\* the number of times placePiece(spiralIndex), entered on board b over the
\* given placement order, calls recordValidBoard
Completions(order, b, spiralIndex) ==
    IF spiralIndex > Len(order) - 1 THEN 1
    ELSE LET coord == order[spiralIndex + 1]
             try(d) == [b EXCEPT ![indexOfCoord(coord[1], coord[2])] = d]
             below(d) == IF isPieceDirectionLegal(try(d), coord[1], coord[2])
                         THEN Completions(order, try(d), spiralIndex + 1) ELSE 0
         IN  below(directions[1]) + below(directions[2]) + below(directions[3]) + below(directions[4])

Init ==
    /\ pc = "start"
    /\ spiral \in PlacementOrders
    /\ pieceDirection = EmptyBoard
    /\ validBoards = 0
    /\ stack = <<>>
    /\ total = 0
    /\ probe = <<>>
    /\ verdict = TRUE

\* walkBoards: pieceDirection[0] = NORTH
Seed ==
    /\ pc = "start"
    /\ pieceDirection' = [pieceDirection EXCEPT ![0] = NORTH]
    /\ pc' = "seeded"
    /\ UNCHANGED <<spiral, validBoards, stack, total, probe, verdict>>

\* CallPlacePiece starting the search at position 0
CallPlacePiece_zero ==
    /\ pc = "seeded"
    /\ stack' = <<Frame(0, pieceDirection)>>
    /\ pc' = "search"
    /\ UNCHANGED <<spiral, pieceDirection, validBoards, total, probe, verdict>>

\* walkBoards: placePiece(1)
CallPlacePiece ==
    /\ pc = "seeded"
    /\ stack' = <<Frame(1, pieceDirection)>>
    /\ pc' = "search"
    /\ UNCHANGED <<spiral, pieceDirection, validBoards, total, probe, verdict>>

\* PlaceRecord with the end test off by one
PlaceRecord_early ==
    /\ pc = "search"
    /\ stack # <<>>
    /\ top.spiralIndex >= Len(spiral) - 1
    /\ validBoards' = recordValidBoard(validBoards)
    /\ stack' = pop
    /\ UNCHANGED <<pc, spiral, pieceDirection, total, probe, verdict>>

\* placePiece: the end of the spiral is reached
PlaceRecord ==
    /\ pc = "search"
    /\ stack # <<>>
    /\ top.spiralIndex > Len(spiral) - 1
    /\ validBoards' = recordValidBoard(validBoards)
    /\ stack' = pop
    /\ UNCHANGED <<pc, spiral, pieceDirection, total, probe, verdict>>

\* placePiece: the for loop assigns the next direction
PlaceAssign ==
    /\ pc = "search"
    /\ stack # <<>>
    /\ top.spiralIndex <= Len(spiral) - 1
    /\ top.at = "loop"
    /\ top.di <= Len(directions)
    /\ pieceDirection' = [pieceDirection EXCEPT ![pieceIndexOf(top)] = directions[top.di]]
    /\ stack' = [stack EXCEPT ![Len(stack)].at = "placed"]
    /\ UNCHANGED <<pc, spiral, validBoards, total, probe, verdict>>

\* placePiece: the oracle accepts the assignment, recurse
PlaceLegal ==
    /\ pc = "search"
    /\ stack # <<>>
    /\ top.at = "placed"
    /\ isPieceDirectionLegal(pieceDirection, coordOf(top)[1], coordOf(top)[2])
    /\ probe' = coordOf(top)
    /\ verdict' = TRUE
    /\ stack' = Append([stack EXCEPT ![Len(stack)].at = "loop",
                                     ![Len(stack)].di = @ + 1],
                       Frame(top.spiralIndex + 1, pieceDirection))
    /\ UNCHANGED <<pc, spiral, pieceDirection, validBoards, total>>

\* placePiece: the oracle rejects the assignment, next direction
PlaceIllegal ==
    /\ pc = "search"
    /\ stack # <<>>
    /\ top.at = "placed"
    /\ ~isPieceDirectionLegal(pieceDirection, coordOf(top)[1], coordOf(top)[2])
    /\ probe' = coordOf(top)
    /\ verdict' = FALSE
    /\ stack' = [stack EXCEPT ![Len(stack)].at = "loop", ![Len(stack)].di = @ + 1]
    /\ UNCHANGED <<pc, spiral, pieceDirection, validBoards, total>>

\* PlaceRemove without the removal of the piece
PlaceRemove_keep ==
    /\ pc = "search"
    /\ stack # <<>>
    /\ top.spiralIndex <= Len(spiral) - 1
    /\ top.at = "loop"
    /\ top.di > Len(directions)
    /\ stack' = pop
    /\ UNCHANGED <<pc, spiral, pieceDirection, validBoards, total, probe, verdict>>

\* PlaceRemove leaving the loop before South is tried
PlaceRemove_skipSouth ==
    /\ pc = "search"
    /\ stack # <<>>
    /\ top.spiralIndex <= Len(spiral) - 1
    /\ top.at = "loop"
    /\ top.di > Len(directions) - 1
    /\ pieceDirection' = [pieceDirection EXCEPT ![pieceIndexOf(top)] = NOWHERE]
    /\ stack' = pop
    /\ UNCHANGED <<pc, spiral, validBoards, total, probe, verdict>>

\* PlaceRemove writing NORTH in the place of NOWHERE
PlaceRemove_north ==
    /\ pc = "search"
    /\ stack # <<>>
    /\ top.spiralIndex <= Len(spiral) - 1
    /\ top.at = "loop"
    /\ top.di > Len(directions)
    /\ pieceDirection' = [pieceDirection EXCEPT ![pieceIndexOf(top)] = NORTH]
    /\ stack' = pop
    /\ UNCHANGED <<pc, spiral, validBoards, total, probe, verdict>>

\* placePiece: all directions tried, remove the piece and return
PlaceRemove ==
    /\ pc = "search"
    /\ stack # <<>>
    /\ top.spiralIndex <= Len(spiral) - 1
    /\ top.at = "loop"
    /\ top.di > Len(directions)
    /\ pieceDirection' = [pieceDirection EXCEPT ![pieceIndexOf(top)] = NOWHERE]
    /\ stack' = pop
    /\ UNCHANGED <<pc, spiral, validBoards, total, probe, verdict>>

\* walkBoards: placePiece(1) has returned, print validBoards * 4
Report ==
    /\ pc = "search"
    /\ stack = <<>>
    /\ total' = validBoards * 4
    /\ pc' = "done"
    /\ UNCHANGED <<spiral, pieceDirection, validBoards, stack, probe, verdict>>

Next ==
    \/ Seed
    \/ CallPlacePiece
    \/ PlaceRecord
    \/ PlaceAssign
    \/ PlaceLegal
    \/ PlaceIllegal
    \/ PlaceRemove
    \/ Report

Spec == Init /\ [][Next]_vars

\* the rearrangements of a placement order
Rearrangements(o) ==
    {[i \in 1..Len(o) |-> o[f[i]]] :
        f \in {g \in [1..Len(o) -> 1..Len(o)] : \A i, j \in 1..Len(o) : g[i] = g[j] => i = j}}

PermutedOrders == UNION {Rearrangements(o) : o \in {q \in PlacementOrders : Len(q) <= PermLen}}

\* walkBoards run with the spiral list rearranged
InitPerm ==
    /\ pc = "start"
    /\ spiral \in PermutedOrders
    /\ pieceDirection = EmptyBoard
    /\ validBoards = 0
    /\ stack = <<>>
    /\ total = 0
    /\ probe = <<>>
    /\ verdict = TRUE

SpecPerm == InitPerm /\ [][Next]_vars

\* the program is one thread that runs to its end: some step is always taken
FairSpec == Spec /\ WF_vars(Next)

(* ---------------- the oracle's test harness ---------------- *)

Put(b, c, d) == [b EXCEPT ![indexOfCoord(c[1], c[2])] = d]

\* testIsPieceDirectionLegal: a clockwise loop on the diamond anchored at a
cwLoopBoard(a) ==
    Put(Put(Put(Put(EmptyBoard, a, NORTH), <<a[1], a[2] + 1>>, EAST),
            <<a[1] + 1, a[2] + 1>>, SOUTH), <<a[1] + 1, a[2]>>, WEST)

\* testIsPieceDirectionLegal: a counter-clockwise loop on the diamond anchored at a
ccwLoopBoard(a) ==
    Put(Put(Put(Put(EmptyBoard, <<a[1] + 1, a[2] + 1>>, NORTH), <<a[1], a[2] + 1>>, WEST),
            a, SOUTH), <<a[1] + 1, a[2]>>, EAST)

LoopBoards == {cwLoopBoard(a) : a \in DiamondAnchors} \cup {ccwLoopBoard(a) : a \in DiamondAnchors}

RECURSIVE PutAll(_, _)
\* further pieces put on cells the board leaves empty
PutAll(b, extras) ==
    IF extras = <<>> THEN b
    ELSE LET e == Head(extras)
             i == indexOfCoord(e[1][1], e[1][2])
         IN  PutAll(IF b[i] = NOWHERE THEN [b EXCEPT ![i] = e[2]] ELSE b, Tail(extras))

ExtraPieces(n) == UNION {[1..k -> OnBoardCoords \X Concrete] : k \in 0..n}

\* two pieces on axis-adjacent cells of an otherwise empty board
PairBoards ==
    {Put(Put(EmptyBoard, c, d1), <<c[1] + 1, c[2]>>, d2) :
        c \in {q \in OnBoardCoords : isOnBoard(q[1] + 1, q[2])}, d1 \in Concrete, d2 \in Concrete}
    \cup
    {Put(Put(EmptyBoard, c, d1), <<c[1], c[2] + 1>>, d2) :
        c \in {q \in OnBoardCoords : isOnBoard(q[1], q[2] + 1)}, d1 \in Concrete, d2 \in Concrete}

\* a loop with one cell of the board's diamonds overwritten: a member of the
\* loop turned or taken away, or a piece put next to it
VariedLoopBoards ==
    {Put(b, c, d) : b \in LoopBoards,
                    c \in {q \in OnBoardCoords : \E a \in DiamondAnchors : q \in Diamond(a)},
                    d \in Concrete \cup {NOWHERE}}

TestBoards(n) ==
    {PutAll(b, e) : b \in LoopBoards, e \in ExtraPieces(n)} \cup PairBoards \cup VariedLoopBoards

InitOracle ==
    /\ pc = "test"
    /\ spiral = Spiral25
    /\ pieceDirection \in TestBoards(MaxOther)
    /\ validBoards = 0
    /\ stack = <<>>
    /\ total = 0
    /\ probe = <<>>
    /\ verdict = TRUE

\* the harness asks the oracle about a placed piece
TestIsPieceDirectionLegal ==
    /\ pc = "test"
    /\ \E c \in OnBoardCoords :
         /\ pieceDirection[indexOfCoord(c[1], c[2])] \in Concrete
         /\ probe' = c
         /\ verdict' = isPieceDirectionLegal(pieceDirection, c[1], c[2])
    /\ pc' = "tested"
    /\ UNCHANGED <<spiral, pieceDirection, validBoards, stack, total>>

NextOracle == TestIsPieceDirectionLegal

SpecOracle == InitOracle /\ [][NextOracle]_vars

(* ---------------- the oracle asked about an empty coordinate ---------------- *)

InitUnplaced ==
    /\ pc = "test"
    /\ spiral = Spiral25
    /\ pieceDirection \in LoopBoards \cup PairBoards
    /\ validBoards = 0
    /\ stack = <<>>
    /\ total = 0
    /\ probe = <<>>
    /\ verdict = TRUE

\* isPieceDirectionLegal applied to an on-board coordinate that holds NOWHERE
TestUnplaced ==
    /\ pc = "test"
    /\ \E c \in OnBoardCoords :
         /\ pieceDirection[indexOfCoord(c[1], c[2])] = NOWHERE
         /\ probe' = c
         /\ verdict' = isPieceDirectionLegal(pieceDirection, c[1], c[2])
    /\ pc' = "tested"
    /\ UNCHANGED <<spiral, pieceDirection, validBoards, stack, total>>

NextUnplaced == TestUnplaced

SpecUnplaced == InitUnplaced /\ [][NextUnplaced]_vars

(* ---------------- the geometry functions applied to a coordinate ---------------- *)

InitGeometry ==
    /\ pc = "geometry"
    /\ spiral = Spiral25
    /\ pieceDirection = EmptyBoard
    /\ validBoards = 0
    /\ stack = <<>>
    /\ total = 0
    /\ probe \in (0 - Reach..Reach) \X (0 - Reach..Reach)
    /\ verdict = TRUE

\* isOnBoard(x, y), as the oracle and testIsOnBoard call it
ApplyIsOnBoard ==
    /\ pc = "geometry"
    /\ verdict' = isOnBoard(probe[1], probe[2])
    /\ pc' = "onBoardDone"
    /\ UNCHANGED <<spiral, pieceDirection, validBoards, stack, total, probe>>

\* indexOfCoord(x, y) on a coordinate of the 7x7 square
ApplyIndexOfCoord ==
    /\ pc = "geometry"
    /\ probe \in Range \X Range
    /\ verdict' = indexOfCoord(probe[1], probe[2])
    /\ pc' = "indexDone"
    /\ UNCHANGED <<spiral, pieceDirection, validBoards, stack, total, probe>>

NextGeometry == ApplyIsOnBoard \/ ApplyIndexOfCoord

SpecGeometry == InitGeometry /\ [][NextGeometry]_vars

(* ---------------- vocabulary of the properties ---------------- *)

Abs(n) == IF n < 0 THEN 0 - n ELSE n

\* the board of the specification: city-block distance at most 3
BoardCells == {c \in Range \X Range : Abs(c[1]) + Abs(c[2]) <= 3}

At(b, c) == b[(c[1] + 3) * 7 + (c[2] + 3)]

\* the overlap rule table, for a piece at c and its neighbour on the given side
TableOverlap(b, c) ==
    LET my == At(b, c)
        nw == <<c[1] - 1, c[2]>>
        sw == <<c[1], c[2] - 1>>
        se == <<c[1] + 1, c[2]>>
        ne == <<c[1], c[2] + 1>>
    IN  \/ nw \in BoardCells /\ my \in {SOUTH, EAST} /\ At(b, nw) \in {NORTH, WEST}
        \/ sw \in BoardCells /\ my \in {NORTH, EAST} /\ At(b, sw) \in {SOUTH, WEST}
        \/ se \in BoardCells /\ my \in {NORTH, WEST} /\ At(b, se) \in {SOUTH, EAST}
        \/ ne \in BoardCells /\ my \in {SOUTH, WEST} /\ At(b, ne) \in {NORTH, EAST}

UnitDiamonds == {a \in BoardCells : Diamond(a) \subseteq BoardCells}

\* (x,y)=North, (x,y+1)=East, (x+1,y+1)=South, (x+1,y)=West with (x,y) = a
ClockwiseLoop(b, a) ==
    /\ At(b, a) = NORTH
    /\ At(b, <<a[1], a[2] + 1>>) = EAST
    /\ At(b, <<a[1] + 1, a[2] + 1>>) = SOUTH
    /\ At(b, <<a[1] + 1, a[2]>>) = WEST

\* (x,y)=North, (x-1,y)=West, (x-1,y-1)=South, (x,y-1)=East with (x-1,y-1) = a
CounterClockwiseLoop(b, a) ==
    /\ At(b, <<a[1] + 1, a[2] + 1>>) = NORTH
    /\ At(b, <<a[1], a[2] + 1>>) = WEST
    /\ At(b, a) = SOUTH
    /\ At(b, <<a[1] + 1, a[2]>>) = EAST

BoardLegal(b) ==
    /\ \A c \in BoardCells : ~TableOverlap(b, c)
    /\ \A a \in UnitDiamonds : ~ClockwiseLoop(b, a) /\ ~CounterClockwiseLoop(b, a)

SpiralCells == {spiral[i] : i \in 1..Len(spiral)}

\* placePiece is about to call recordValidBoard
Recording == pc = "search" /\ stack # <<>> /\ top.spiralIndex > Len(spiral) - 1

\* the number of complete legal assignments of the cells of an order, the
\* first cell pointing North
BruteForceCount(order) ==
    LET cells == {order[i] : i \in 1..Len(order)}
        boardOf(f) == [i \in Slots |->
                         IF \E c \in cells : indexOfCoord(c[1], c[2]) = i
                         THEN f[CHOOSE c \in cells : indexOfCoord(c[1], c[2]) = i]
                         ELSE NOWHERE]
    IN  Cardinality({f \in [cells -> Concrete] : f[order[1]] = NORTH /\ BoardLegal(boardOf(f))})

\* the cells of an order are mapped onto themselves by the quarter turn of the board
RotationClosed(order) ==
    LET cells == {order[i] : i \in 1..Len(order)}
    IN  \A c \in cells : <<0 - c[2], c[1]>> \in cells

(* ---------------- C1 ---------------- *)

\* C1: whenever recordValidBoard is called, every coordinate of the placement
\* order, the centre included, holds North, East, West or South.
C1_FullCoverage ==
    Recording => \A c \in SpiralCells : At(pieceDirection, c) \in Concrete

(* ---------------- C2 ---------------- *)

\* C2: whenever recordValidBoard is called the whole board is legal: no
\* axis-adjacent pair overlaps under the rule table and no unit diamond holds
\* a clockwise or counter-clockwise loop.
C2_GlobalLegality == Recording => BoardLegal(pieceDirection)

\* a completed board on which all four cells of a unit diamond are placed
C2_Witness ==
    /\ Recording
    /\ \E a \in UnitDiamonds : \A c \in Diamond(a) : At(pieceDirection, c) \in Concrete

(* ---------------- C3 ---------------- *)

\* C3: the completions recorded are exactly the complete legal assignments
\* with the first cell North, each once: at the end the counter equals the
\* brute-force count over all assignments.
C3_ExactCount == pc = "done" => validBoards = BruteForceCount(spiral)

(* ---------------- C4 ---------------- *)

\* C4: the reported total (4 times the completions of the seeded run) equals
\* the number of completions of the search run from position 0 with all four
\* directions tried for the centre.
C4_FourFold ==
    (pc = "done" /\ RotationClosed(spiral)) => total = Completions(spiral, EmptyBoard, 0)

(* ---------------- C5 ---------------- *)

\* C5: from the call placePiece(1) until the total is reported, the
\* coordinate spiral[0] holds North.
C5_SeedNorth == pc \in {"seeded", "search"} => At(pieceDirection, spiral[1]) = NORTH

(* ---------------- C6 ---------------- *)

\* C6: every slot of the 7x7 array whose coordinate is off the board holds
\* NOWHERE in every state of the run.
C6_OffBoardEmpty ==
    \A c \in (Range \X Range) \ BoardCells : At(pieceDirection, c) = NOWHERE

(* ---------------- C7 ---------------- *)

\* C7: when the four cells of a unit diamond hold a clockwise or a
\* counter-clockwise loop, the oracle returns False on each of the four
\* coordinates, whatever the other cells hold.
C7_LoopRejected ==
    (pc = "tested" /\ \E a \in UnitDiamonds :
        /\ probe \in Diamond(a)
        /\ ClockwiseLoop(pieceDirection, a) \/ CounterClockwiseLoop(pieceDirection, a))
    => verdict = FALSE

\* the oracle has been asked about a member of a loop next to a further piece
C7_Witness ==
    /\ pc = "tested"
    /\ \E a \in UnitDiamonds :
        /\ probe \in Diamond(a)
        /\ ClockwiseLoop(pieceDirection, a) \/ CounterClockwiseLoop(pieceDirection, a)
        /\ \E c \in BoardCells \ Diamond(a) : At(pieceDirection, c) \in Concrete
    /\ verdict = FALSE

(* ---------------- C8 ---------------- *)

SouthNorthBoard == Put(Put(EmptyBoard, <<0, 0>>, SOUTH), <<1, 0>>, NORTH)

NorthSouthBoard == Put(Put(EmptyBoard, <<0, 0>>, NORTH), <<1, 0>>, SOUTH)

\* C8 as stated: with South at (0,0) and North at (1,0) on an otherwise
\* empty board the oracle returns False for the placement.
C8_SouthNorthRejected ==
    (pc = "tested" /\ pieceDirection = SouthNorthBoard /\ probe = <<1, 0>>) => verdict = FALSE

\* C8 amended: with North at (0,0) and South at (1,0) on an otherwise empty
\* board the oracle returns False for the placement.
C8_NorthSouthRejected ==
    (pc = "tested" /\ pieceDirection = NorthSouthBoard /\ probe = <<1, 0>>) => verdict = FALSE

C8_Witness ==
    pc = "tested" /\ pieceDirection = NorthSouthBoard /\ probe = <<1, 0>> /\ verdict = FALSE

(* ---------------- C9 ---------------- *)

\* C9: when a call placePiece(d) returns, the whole board array is what it
\* was when the call was entered, and the coordinate at position d is
\* NOWHERE again.
C9_UndoRestores ==
    [][(stack # <<>> /\ Len(stack') < Len(stack)) =>
          /\ pieceDirection' = top.entry
          /\ top.spiralIndex <= Len(spiral) - 1 => pieceDirection'[pieceIndexOf(top)] = NOWHERE]_vars

\* the outermost call has returned after completions were recorded below it
C9_Witness == pc = "search" /\ stack = <<>> /\ validBoards > 0 /\ Len(spiral) > 1

(* ---------------- C10 ---------------- *)

\* C10: the counter changes only by +1, and only in a call placePiece(d)
\* with d past the last position of the placement order.
C10_CounterDiscipline ==
    [][validBoards' # validBoards =>
          /\ validBoards' = validBoards + 1
          /\ stack # <<>>
          /\ top.spiralIndex = Len(spiral)]_vars

\* the counter has been incremented more than once in a run over several cells
C10_Witness == validBoards > 1 /\ Len(spiral) > 2

(* ---------------- C11 ---------------- *)

\* C11 as stated: asked about an on-board coordinate that holds NOWHERE, the
\* oracle signals a defect instead of returning a legality verdict.
C11_DefectSignalled ==
    (pc = "tested" /\ At(pieceDirection, probe) = NOWHERE) => verdict \notin BOOLEAN

\* C11 amended: asked about an on-board coordinate that holds NOWHERE, the
\* oracle returns True, the ordinary verdict 'legal', whatever the
\* neighbours hold.
C11_UnplacedLegal ==
    (pc = "tested" /\ At(pieceDirection, probe) = NOWHERE) => verdict = TRUE

\* an empty coordinate with a placed neighbour has been judged
C11_Witness ==
    /\ pc = "tested"
    /\ At(pieceDirection, probe) = NOWHERE
    /\ <<probe[1], probe[2] - 1>> \in BoardCells
    /\ At(pieceDirection, <<probe[1], probe[2] - 1>>) \in Concrete
    /\ verdict = TRUE

(* ---------------- C12 ---------------- *)

\* C12: for x, y in -4..4, isOnBoard(x, y) is true iff |x| + |y| <= 3, and
\* exactly 25 pairs of the 7x7 square satisfy it.
C12_OnBoardMembership ==
    pc = "onBoardDone" =>
        /\ verdict <=> (Abs(probe[1]) + Abs(probe[2]) <= 3)
        /\ Cardinality({c \in Range \X Range : isOnBoard(c[1], c[2])}) = 25

\* isOnBoard has answered for a coordinate of the board's rim and for one outside the array
C12_Witness ==
    /\ pc = "onBoardDone"
    /\ \/ Abs(probe[1]) + Abs(probe[2]) = 3 /\ verdict = TRUE
       \/ Abs(probe[1]) = 4 /\ verdict = FALSE

(* ---------------- C13 ---------------- *)

\* C13: over the 49 pairs of the 7x7 square indexOfCoord takes each value of
\* 0..48 exactly once, and (index div 7 - 3, index mod 7 - 3) recovers (x, y).
C13_IndexBijection ==
    pc = "indexDone" =>
        /\ verdict \in 0..48
        /\ <<(verdict \div 7) - 3, (verdict % 7) - 3>> = probe
        /\ \A c \in Range \X Range : indexOfCoord(c[1], c[2]) = verdict => c = probe
        /\ {indexOfCoord(c[1], c[2]) : c \in Range \X Range} = 0..48

\* indexOfCoord has been applied to a coordinate with negative entries
C13_Witness == pc = "indexDone" /\ probe[1] < 0 /\ probe[2] < 0 /\ verdict < 24

(* ---------------- C14 ---------------- *)

\* the direction a coordinate shows to the rule tables: off the board there is no piece
Dir(b, c) == IF c \in BoardCells THEN At(b, c) ELSE NOWHERE

\* the cycle signature table: a row of the piece's own direction is fully matched
SignatureMatched(b, c) ==
    LET my == At(b, c)
        nw == Dir(b, <<c[1] - 1, c[2]>>)
        sw == Dir(b, <<c[1], c[2] - 1>>)
        se == Dir(b, <<c[1] + 1, c[2]>>)
        ne == Dir(b, <<c[1], c[2] + 1>>)
        far(dx, dy) == Dir(b, <<c[1] + dx, c[2] + dy>>)
    IN  \/ my = NORTH /\ nw = WEST /\ far(-1, -1) = SOUTH /\ sw = EAST
        \/ my = NORTH /\ ne = EAST /\ far(1, 1) = SOUTH /\ se = WEST
        \/ my = EAST /\ ne = NORTH /\ far(-1, 1) = WEST /\ nw = SOUTH
        \/ my = EAST /\ se = SOUTH /\ far(1, -1) = WEST /\ sw = NORTH
        \/ my = SOUTH /\ se = EAST /\ far(1, 1) = NORTH /\ ne = WEST
        \/ my = SOUTH /\ sw = WEST /\ far(-1, -1) = NORTH /\ nw = EAST
        \/ my = WEST /\ sw = SOUTH /\ far(1, -1) = EAST /\ se = NORTH
        \/ my = WEST /\ nw = NORTH /\ far(-1, 1) = EAST /\ ne = SOUTH

\* C14: for a placed on-board piece the oracle returns False iff an on-board
\* axis-neighbour overlaps it per the overlap table or a cycle signature of
\* its direction is fully matched; off-board and empty neighbours never
\* cause a rejection.
C14_OracleEqualsTables ==
    pc = "tested" =>
        (verdict = FALSE <=>
            TableOverlap(pieceDirection, probe) \/ SignatureMatched(pieceDirection, probe))

\* a rejection that only the signature table explains
C14_Witness ==
    /\ pc = "tested"
    /\ verdict = FALSE
    /\ ~TableOverlap(pieceDirection, probe)
    /\ SignatureMatched(pieceDirection, probe)

(* ---------------- C15 ---------------- *)

\* placePiece has assigned a direction and is about to call the oracle
Invoking == pc = "search" /\ stack # <<>> /\ top.at = "placed"

\* C15: whenever placePiece(d) invokes the oracle on the coordinate at
\* position d, every coordinate at a later position holds NOWHERE.
C15_LaterCellsEmpty ==
    Invoking => \A i \in (top.spiralIndex + 2)..Len(spiral) :
                    At(pieceDirection, spiral[i]) = NOWHERE

\* the oracle is invoked at a position that has later positions, after the
\* search has already been through them
C15_Witness == Invoking /\ top.spiralIndex < Len(spiral) - 1 /\ validBoards > 0

(* ---------------- C16 ---------------- *)

\* C16: a call placePiece(d) below the end of the order assigns North, East,
\* West, South in this order, asks the oracle once after each assignment,
\* recurses into placePiece(d+1) exactly when the verdict is legal, goes on
\* to the next direction in either case, and returns only after the fourth.
C16_NoEarlyExit ==
    [][(pc = "search" /\ stack # <<>> /\ top.spiralIndex <= Len(spiral) - 1) =>
        LET n == Len(stack)
            d == top.spiralIndex
        IN  /\ (top.at = "loop" /\ top.di <= 4) =>
                  /\ Len(stack') = n
                  /\ stack'[n].at = "placed"
                  /\ stack'[n].di = top.di
                  /\ At(pieceDirection', spiral[d + 1]) = <<NORTH, EAST, WEST, SOUTH>>[top.di]
            /\ top.at = "placed" =>
                  /\ probe' = spiral[d + 1]
                  /\ verdict' = isPieceDirectionLegal(pieceDirection, spiral[d + 1][1], spiral[d + 1][2])
                  /\ pieceDirection' = pieceDirection
                  /\ stack'[n].at = "loop"
                  /\ stack'[n].di = top.di + 1
                  /\ verdict' => Len(stack') = n + 1 /\ stack'[n + 1].spiralIndex = d + 1
                  /\ ~verdict' => Len(stack') = n
            /\ Len(stack') < n => top.at = "loop" /\ top.di = 5]_vars

\* a call is about to return after its four directions, completions having
\* been recorded meanwhile
C16_Witness ==
    /\ pc = "search" /\ stack # <<>>
    /\ top.spiralIndex <= Len(spiral) - 1
    /\ top.at = "loop" /\ top.di = 5
    /\ validBoards > 0

(* ---------------- C17 ---------------- *)

\* the active calls are placePiece(1), placePiece(2), ... in this order,
\* none past the end of the placement order
StackShape ==
    /\ Len(stack) <= Len(spiral)
    /\ \A i \in 1..Len(stack) : stack[i].spiralIndex = i /\ i <= Len(spiral)

\* C17: the search terminates, and in every state the active calls have
\* the indices 1, 2, 3, ... up to at most the length of the order (25).
C17_BoundedTerminating == [](StackShape) /\ <>(pc = "done")

\* the recursion is at its greatest depth
C17_Witness == Len(spiral) >= 3 /\ Len(stack) = Len(spiral)

(* ---------------- C18 ---------------- *)

SpiralIsPermutation ==
    /\ Len(Spiral25) = 25
    /\ \A i \in 1..Len(Spiral25) : Spiral25[i] \in BoardCells
    /\ \A c \in BoardCells : Cardinality({i \in 1..Len(Spiral25) : Spiral25[i] = c}) = 1
    /\ Spiral25[1] = <<0, 0>>

\* C18: the spiral has 25 entries, all on the board, every on-board
\* coordinate exactly once, the centre first; so the active calls of a
\* search path are about pairwise different coordinates.
C18_SpiralPermutation ==
    /\ SpiralIsPermutation
    /\ \A i \in 1..Len(stack) : \A j \in 1..Len(stack) :
          (i # j /\ stack[i].spiralIndex < Len(spiral) /\ stack[j].spiralIndex < Len(spiral))
              => spiral[stack[i].spiralIndex + 1] # spiral[stack[j].spiralIndex + 1]

\* a path with at least three pieces on the board
C18_Witness == Invoking /\ Len(stack) >= 3

(* ---------------- C19 ---------------- *)

\* C19: every invocation of the oracle by the search is on an on-board
\* coordinate that holds North, East, West or South at that moment.
C19_PreconditionMet ==
    Invoking => /\ coordOf(top) \in BoardCells
                /\ At(pieceDirection, coordOf(top)) \in Concrete

\* the oracle is invoked on a piece pointing South
C19_Witness == Invoking /\ At(pieceDirection, coordOf(top)) = SOUTH

(* ---------------- C20 ---------------- *)

\* the completions of the run of walkBoards over the same cells in the spiral's order
SpiralOrderCount == Completions(Restrict(SpiralCells), [EmptyBoard EXCEPT ![0] = NORTH], 1)

\* C20 as stated: the run over any permutation of the placement order counts
\* as many completions as the run over the spiral's order.
C20_OrderIndependent == pc = "done" => validBoards = SpiralOrderCount

\* C20 amended: the run over any permutation of the placement order that
\* leaves the first entry (the centre) in its place counts as many
\* completions as the run over the spiral's order.
C20_OrderIndependentCentreFirst ==
    (pc = "done" /\ spiral[1] = <<0, 0>>) => validBoards = SpiralOrderCount

\* a run over a rearranged order with the centre first has ended, two of
\* its placed cells being axis-neighbours
C20_Witness ==
    /\ pc = "done"
    /\ spiral[1] = <<0, 0>>
    /\ spiral # Restrict(SpiralCells)
    /\ \E i, j \in 2..Len(spiral) : spiral[j] = <<spiral[i][1], spiral[i][2] + 1>>
    /\ validBoards > 0

====
